---------------------------- MODULE Spec2Model ----------------------------
(***************************************************************************)
(* Biquad filters: the DigitalBiquadFilter core (coefficients, recurrence  *)
(* state, single-sample and block processing with the scalar, AVX, SSE and *)
(* NEON block paths) and the FilterObject wrapper with its filter kinds.   *)
(*                                                                         *)
(* Sample and coefficient values are exact rationals n/d; d = 0 encodes    *)
(* the non-finite floating point values (1/0 = +inf, -1/0 = -inf,          *)
(* 0/0 = NaN).  Rounding of finite values is not modelled.                 *)
(***************************************************************************)
EXTENDS Integers, Sequences, FiniteSets, TLC

(***************************************************************************)
(* Bounds of the model.                                                    *)
(***************************************************************************)
\* longest buffer handed to process(buffer, count)
MaxLen == 3
\* most samples fed to a core between two resets
MaxFed == 3
\* most samples fed to a filter object's core between two resets
MaxObjectFed == 2
\* most process calls a filter object refuses
MaxSkipped == 1

(***************************************************************************)
(* Arithmetic on the value type T.                                         *)
(***************************************************************************)
Abs(i) == IF i < 0 THEN -i ELSE i

Sgn(i) == IF i < 0 THEN -1 ELSE IF i > 0 THEN 1 ELSE 0

RECURSIVE GCD(_, _)
GCD(a, b) == IF b = 0 THEN a ELSE GCD(b, a % b)

\* the value n/d in lowest terms with d >= 0
Norm(n, d) ==
    IF d = 0 THEN [n |-> Sgn(n), d |-> 0]
    ELSE LET g == GCD(Abs(n), Abs(d))
         IN  [n |-> (Sgn(d) * n) \div g, d |-> Abs(d) \div g]

Rat(n, d) == Norm(n, d)

R(i) == [n |-> i, d |-> 1]

Zero == R(0)

One == R(1)

Two == R(2)

NaN == [n |-> 0, d |-> 0]

IsNaN(a) == a.d = 0 /\ a.n = 0

IsFinite(a) == a.d # 0

RNeg(a) == [n |-> -a.n, d |-> a.d]

RAdd(a, b) ==
    IF IsNaN(a) \/ IsNaN(b) THEN NaN
    ELSE IF a.d = 0 /\ b.d = 0 THEN (IF a.n = b.n THEN a ELSE NaN)
    ELSE IF a.d = 0 THEN a
    ELSE IF b.d = 0 THEN b
    ELSE Norm(a.n * b.d + b.n * a.d, a.d * b.d)

RSub(a, b) == RAdd(a, RNeg(b))

RMul(a, b) ==
    IF IsNaN(a) \/ IsNaN(b) THEN NaN ELSE Norm(a.n * b.n, a.d * b.d)

RDiv(a, b) ==
    IF IsNaN(a) \/ IsNaN(b) THEN NaN
    ELSE Norm(a.n * b.d * (IF b.n < 0 THEN -1 ELSE 1), a.d * Abs(b.n))

\* the comparisons ==, <, <= of the value type: false when an operand is NaN
REq(a, b) == ~IsNaN(a) /\ ~IsNaN(b) /\ a = b

RLt(a, b) == RSub(b, a).n > 0

RLe(a, b) == RLt(a, b) \/ REq(a, b)

(***************************************************************************)
(* DigitalBiquadFilter: Coefficients, State and the core's operations.     *)
(* A core is a record [m_coefficients, m_state, m_iter] with has_value     *)
(* TRUE; nullopt is the empty std::optional.                               *)
(***************************************************************************)
nullopt == [has_value |-> FALSE]

\* a T* argument: the null pointer, or a pointer to the caller's buffer mem
nullptr == [null |-> TRUE]

Ptr(mem) == [null |-> FALSE, mem |-> mem]

Coefficients(b0, b1, b2, a0, a1, a2) ==
    [b0 |-> b0, b1 |-> b1, b2 |-> b2, a0 |-> a0, a1 |-> a1, a2 |-> a2]

State(x1, x2, y1, y2) == [x1 |-> x1, x2 |-> x2, y1 |-> y1, y2 |-> y2]

ZeroState == State(Zero, Zero, Zero, Zero)

\* no coefficient set
NoCoefficients == [none |-> TRUE]

normalize_coefficients(c) ==
    [b0 |-> RDiv(c.b0, c.a0),
     b1 |-> RDiv(c.b1, c.a0),
     b2 |-> RDiv(c.b2, c.a0),
     a1 |-> RDiv(c.a1, c.a0),
     a2 |-> RDiv(c.a2, c.a0),
     a0 |-> One]

\* the private constructor: coefficients normalized, state and counter
\* value-initialized
DigitalBiquadFilter(c) ==
    [has_value      |-> TRUE,
     m_coefficients |-> normalize_coefficients(c),
     m_state        |-> ZeroState,
     m_iter         |-> 0]

\* create rejecting only an all-zero denominator
create_checks_denominator(c) ==
    IF REq(c.a0, Zero) /\ REq(c.a1, Zero) /\ REq(c.a2, Zero) THEN nullopt
    ELSE DigitalBiquadFilter(c)

create(c) == IF REq(c.a0, Zero) THEN nullopt ELSE DigitalBiquadFilter(c)

\* the recurrence of process(T&), as the code parenthesizes it
Output(c, s, x0) ==
    RSub(RSub(RAdd(RAdd(RMul(c.b0, x0), RMul(c.b1, s.x1)), RMul(c.b2, s.x2)),
              RMul(c.a1, s.y1)),
         RMul(c.a2, s.y2))

\* process shifting the new output into y2 instead of the old y1
process_shifts_output(f, x0) ==
    LET output == Output(f.m_coefficients, f.m_state, x0)
    IN  [filter |-> [f EXCEPT !.m_state = State(x0, f.m_state.x1,
                                                output, output),
                              !.m_iter = f.m_iter + 1],
         sample |-> output]

\* process writing the output of the call before into sample
process_returns_previous(f, x0) ==
    LET output == Output(f.m_coefficients, f.m_state, x0)
    IN  [filter |-> [f EXCEPT !.m_state = State(x0, f.m_state.x1,
                                                output, f.m_state.y1),
                              !.m_iter = f.m_iter + 1],
         sample |-> f.m_state.y1]

\* the end of process(T& sample): the state shifts, the counter advances
\* and output is written to sample
Shift(f, x0, output) ==
    [filter |-> [f EXCEPT !.m_state = State(x0, f.m_state.x1,
                                            output, f.m_state.y1),
                          !.m_iter = f.m_iter + 1],
     sample |-> output]

\* process(T& sample): the core afterwards and the value written to sample
process(f, x0) == Shift(f, x0, Output(f.m_coefficients, f.m_state, x0))

\* reset forgetting the outputs
reset_inputs_only(f) ==
    [f EXCEPT !.m_state = State(Zero, Zero, f.m_state.y1, f.m_state.y2),
              !.m_iter = 0]

reset(f) == [f EXCEPT !.m_state = ZeroState, !.m_iter = 0]

\* set_coefficients storing the coefficients as given
set_coefficients_unnormalized(f, c) ==
    IF REq(c.a0, Zero)
    THEN [filter |-> f, ret |-> FALSE]
    ELSE [filter |-> reset([f EXCEPT !.m_coefficients = c]), ret |-> TRUE]

\* set_coefficients resetting before it looks at a0
set_coefficients_resets_first(f, c) ==
    IF REq(c.a0, Zero)
    THEN [filter |-> reset(f), ret |-> FALSE]
    ELSE [filter |-> reset([f EXCEPT !.m_coefficients =
                                         normalize_coefficients(c)]),
          ret |-> TRUE]

\* set_coefficients keeping the state
set_coefficients_keeps_state(f, c) ==
    IF REq(c.a0, Zero)
    THEN [filter |-> f, ret |-> FALSE]
    ELSE [filter |-> [f EXCEPT !.m_coefficients = normalize_coefficients(c)],
          ret |-> TRUE]

\* set_coefficients: the core afterwards and the returned flag
set_coefficients(f, c) ==
    IF REq(c.a0, Zero)
    THEN [filter |-> f, ret |-> FALSE]
    ELSE [filter |-> reset([f EXCEPT !.m_coefficients =
                                         normalize_coefficients(c)]),
          ret |-> TRUE]

(***************************************************************************)
(* Block processing.  A buffer is a sequence of values; the result is the  *)
(* core afterwards and the buffer afterwards.                              *)
(***************************************************************************)
RECURSIVE ScalarLoop(_, _, _)
\* the loop after process(samples[i]) gave r
ScalarStep(samples, i, r) ==
    ScalarLoop(r.filter, [samples EXCEPT ![i] = r.sample], i + 1)

ScalarLoop(f, samples, i) ==
    IF i > Len(samples) THEN [filter |-> f, samples |-> samples]
    ELSE ScalarStep(samples, i, process(f, samples[i]))

process_block_scalar(f, samples) ==
    IF Len(samples) <= 0 THEN [filter |-> f, samples |-> samples]
    ELSE ScalarLoop(f, samples, 1)

\* one vector register of W lanes all holding v
Broadcast(v, W) == [j \in 1..W |-> v]

\* The loop of a vector path: i is the 1-based index of the block's first
\* sample; x1, x2, y1, y2 are the W-lane registers.  Each lane j computes
\* its output from lane j of the registers; whole blocks only.
RECURSIVE VectorLoop(_, _, _, _, _, _, _, _)
\* the end of one pass: the register y0 is stored over the block and the
\* registers shift
VectorStore(c, samples, i, W, x0, x1, y0, y1) ==
    LET stored == [k \in 1..Len(samples) |->
                     IF k >= i /\ k < i + W THEN y0[k - i + 1]
                     ELSE samples[k]]
    IN  VectorLoop(c, stored, i + W, W, x0, x1, y0, y1)

VectorLoop(c, samples, i, W, x1, x2, y1, y2) ==
    IF i + W - 1 > Len(samples)
    THEN [samples |-> samples,
          state |-> State(x1[1], x2[1], y1[1], y2[1])]
    ELSE LET x0 == [j \in 1..W |-> samples[i + j - 1]]
         IN  VectorStore(c, samples, i, W, x0, x1,
                 [j \in 1..W |->
                    RSub(RAdd(RAdd(RMul(c.b0, x0[j]), RMul(c.b1, x1[j])),
                              RMul(c.b2, x2[j])),
                         RAdd(RMul(c.a1, y1[j]), RMul(c.a2, y2[j])))],
                 y1)

\* the body shared by the vector paths for a register of W lanes
\* the end of a vector path: lane 0 of the registers r left is the state
StoreState(f, r) ==
    [filter |-> [f EXCEPT !.m_state = r.state], samples |-> r.samples]

VectorBlock(f, samples, W) ==
    IF Len(samples) < W THEN process_block_scalar(f, samples)
    ELSE StoreState(f, VectorLoop(f.m_coefficients, samples, 1, W,
                                  Broadcast(f.m_state.x1, W),
                                  Broadcast(f.m_state.x2, W),
                                  Broadcast(f.m_state.y1, W),
                                  Broadcast(f.m_state.y2, W)))

process_block_avx(f, samples, T) ==
    VectorBlock(f, samples, IF T = "float" THEN 8 ELSE 4)

process_block_sse(f, samples, T) ==
    VectorBlock(f, samples, IF T = "float" THEN 4 ELSE 2)

process_block_neon(f, samples, T) ==
    VectorBlock(f, samples, IF T = "float" THEN 4 ELSE 2)

\* the end of process(T*, size_t): the path's result r and the caller's
\* buffer, whose elements from count on are the untouched rest
Dispatched(rest, r) ==
    [ret |-> TRUE, filter |-> r.filter, samples |-> Ptr(r.samples \o rest)]

\* process(T*, size_t) refusing only a null buffer
process_block_checks_pointer_only(f, samples, count, isa, T) ==
    IF samples.null
    THEN [ret |-> FALSE, filter |-> f, samples |-> samples]
    ELSE LET head == SubSeq(samples.mem, 1, count)
             rest == SubSeq(samples.mem, count + 1, Len(samples.mem))
             r == process_block_scalar(f, head)
         IN  [ret |-> TRUE, filter |-> r.filter,
              samples |-> Ptr(r.samples \o rest)]

\* process(T* samples, size_t count) compiled for instruction set isa:
\* the returned flag, the core afterwards and the buffer afterwards
\* (the paths see the first count elements of the caller's buffer)
process_block(f, samples, count, isa, T) ==
    IF samples.null \/ count <= 0
    THEN [ret |-> FALSE, filter |-> f, samples |-> samples]
    ELSE LET head == SubSeq(samples.mem, 1, count)
             rest == SubSeq(samples.mem, count + 1, Len(samples.mem))
         IN  Dispatched(rest,
                 CASE isa = "AVX"      -> process_block_avx(f, head, T)
                   [] isa = "SSE4_1"   -> process_block_sse(f, head, T)
                   [] isa = "ARM_NEON" -> process_block_neon(f, head, T)
                   [] OTHER            -> process_block_scalar(f, head))

(***************************************************************************)
(* The math library on the values the model's parameters produce.  An      *)
(* angle is kept in turns (w0 / 2 pi); the parameter domains below keep it *)
(* on the quarter-turn grid, and cos and sin take their mathematical       *)
(* values there.  The library's cos(pi) is -1 exactly; its sin(pi) and     *)
(* cos(pi/2) are of the order of 1e-16 where the tables hold 0.            *)
(***************************************************************************)
QuarterTurns(turns) == ((4 * turns.n) \div turns.d) % 4

Cos(turns) ==
    CASE QuarterTurns(turns) = 0 -> One
      [] QuarterTurns(turns) = 1 -> Zero
      [] QuarterTurns(turns) = 2 -> R(-1)
      [] QuarterTurns(turns) = 3 -> Zero

Sin(turns) ==
    CASE QuarterTurns(turns) = 0 -> Zero
      [] QuarterTurns(turns) = 1 -> One
      [] QuarterTurns(turns) = 2 -> Zero
      [] QuarterTurns(turns) = 3 -> R(-1)

\* std::pow(10.0, x): 10^-325 is below the smallest subnormal of float and
\* of double, and the library returns 0
Pow10(x) ==
    CASE x = R(0)    -> R(1)
      [] x = R(2)    -> R(100)
      [] x = R(-325) -> R(0)

\* std::sqrt
Sqrt(v) ==
    CASE v = R(0)   -> R(0)
      [] v = R(1)   -> R(1)
      [] v = R(100) -> R(10)

\* std::log10(2.0), 0.30103, to two digits
Log10Of2 == Rat(3, 10)

\* std::sinh to two digits; sinh(x) is x itself for x this close to 0
Sinh(x) ==
    CASE x = Rat(3, 5)       -> Rat(16, 25)
      [] x = Rat(3, 2000000) -> x

\* std::asinh to two digits
Asinh(v) ==
    CASE v = Zero        -> Zero
      [] v = Rat(1, 2)   -> Rat(12, 25)
      [] v = Rat(16, 25) -> Rat(3, 5)
      [] v = One         -> Rat(22, 25)

\* the largest finite value of T (3.4e38 for float, 1.8e308 for double) on
\* the model's scale: above every other value the model holds
Largest == R(100000)

\* a result of T's arithmetic: a magnitude above the largest finite value
\* overflows to infinity
Overflow(v) ==
    IF IsFinite(v) /\ RLt(Largest, [n |-> Abs(v.n), d |-> v.d])
    THEN [n |-> Sgn(v.n), d |-> 0]
    ELSE v

(***************************************************************************)
(* FilterObject and the filter kinds derived from it.  An object is a      *)
(* record of the members m_filter, m_cutoff, m_sampleRate, m_qFactor,      *)
(* m_gain, m_constantSkirtGain, m_bypass, with kind naming its class.      *)
(***************************************************************************)
GainKinds == {"PeakingEQFilter", "LowShelfFilter", "HighShelfFilter"}

Kinds == {"LowPassFilter", "HighPassFilter", "BandPassFilter", "NotchFilter",
          "AllPassFilter"} \cup GainKinds

\* w0 / (2 pi), cos_w0, alpha, A of calculate_coefficients
W0(o) == RDiv(o.m_cutoff, R(o.m_sampleRate))

CosW0(o) == Cos(W0(o))

Alpha(o) == RDiv(Sin(W0(o)), RMul(Two, o.m_qFactor))

GainA(o) == Pow10(RDiv(o.m_gain, R(40)))

LowPassCoefficients(o) ==
    LET cos_w0 == CosW0(o)
        alpha == Alpha(o)
        b1 == RSub(One, cos_w0)
        b0 == RDiv(b1, Two)
    IN  Coefficients(b0, b1, b0,
                     RAdd(One, alpha), RMul(R(-2), cos_w0), RSub(One, alpha))

\* the high-pass formula with the sign of b1 lost
HighPassCoefficients_positive_b1(o) ==
    LET cos_w0 == CosW0(o)
        alpha == Alpha(o)
        b1 == RAdd(One, cos_w0)
        b0 == RDiv(b1, Two)
    IN  Coefficients(b0, b1, b0,
                     RAdd(One, alpha), RMul(R(-2), cos_w0), RSub(One, alpha))

HighPassCoefficients(o) ==
    LET cos_w0 == CosW0(o)
        alpha == Alpha(o)
        b1 == RNeg(RAdd(One, cos_w0))
        b0 == RDiv(RNeg(b1), Two)
    IN  Coefficients(b0, b1, b0,
                     RAdd(One, alpha), RMul(R(-2), cos_w0), RSub(One, alpha))

BandPassCoefficients(o) ==
    LET cos_w0 == CosW0(o)
        alpha == Alpha(o)
        b0 == IF o.m_constantSkirtGain THEN RMul(o.m_qFactor, alpha) ELSE alpha
        b2 == IF o.m_constantSkirtGain
              THEN RMul(RNeg(o.m_qFactor), alpha) ELSE RNeg(alpha)
    IN  Coefficients(b0, Zero, b2,
                     RAdd(One, alpha), RMul(R(-2), cos_w0), RSub(One, alpha))

NotchCoefficients(o) ==
    LET cos_w0 == CosW0(o)
        alpha == Alpha(o)
    IN  Coefficients(One, RMul(R(-2), cos_w0), One,
                     RAdd(One, alpha), RMul(R(-2), cos_w0), RSub(One, alpha))

AllPassCoefficients(o) ==
    LET cos_w0 == CosW0(o)
        alpha == Alpha(o)
    IN  Coefficients(RSub(One, alpha), RMul(R(-2), cos_w0), RAdd(One, alpha),
                     RAdd(One, alpha), RMul(R(-2), cos_w0), RSub(One, alpha))

PeakingEQCoefficients(o) ==
    LET cos_w0 == CosW0(o)
        alpha == Alpha(o)
        A == GainA(o)
    IN  Coefficients(RAdd(One, RMul(alpha, A)),
                     RMul(R(-2), cos_w0),
                     RSub(One, RMul(alpha, A)),
                     RAdd(One, RDiv(alpha, A)),
                     RMul(R(-2), cos_w0),
                     RSub(One, RDiv(alpha, A)))

\* the terms the shelving formulas share: A + 1, A - 1 and 2 sqrt(A) alpha
ShelfSkirt(o) == RMul(RMul(Two, Sqrt(GainA(o))), Alpha(o))

\* the low-shelf formula with the high-shelf a1
LowShelfCoefficients_high_shelf_a1(o) ==
    LET cos_w0 == CosW0(o)
        A == GainA(o)
        Ap1 == RAdd(A, One)
        Am1 == RSub(A, One)
        skirt == ShelfSkirt(o)
    IN  Coefficients(
            RMul(A, RAdd(RSub(Ap1, RMul(Am1, cos_w0)), skirt)),
            RMul(RMul(Two, A), RSub(Am1, RMul(Ap1, cos_w0))),
            RMul(A, RSub(RSub(Ap1, RMul(Am1, cos_w0)), skirt)),
            RAdd(RAdd(Ap1, RMul(Am1, cos_w0)), skirt),
            RMul(Two, RSub(Am1, RMul(Ap1, cos_w0))),
            RSub(RAdd(Ap1, RMul(Am1, cos_w0)), skirt))

LowShelfCoefficients(o) ==
    LET cos_w0 == CosW0(o)
        A == GainA(o)
        Ap1 == RAdd(A, One)
        Am1 == RSub(A, One)
        skirt == ShelfSkirt(o)
    IN  Coefficients(
            RMul(A, RAdd(RSub(Ap1, RMul(Am1, cos_w0)), skirt)),
            RMul(RMul(Two, A), RSub(Am1, RMul(Ap1, cos_w0))),
            RMul(A, RSub(RSub(Ap1, RMul(Am1, cos_w0)), skirt)),
            RAdd(RAdd(Ap1, RMul(Am1, cos_w0)), skirt),
            RMul(R(-2), RAdd(Am1, RMul(Ap1, cos_w0))),
            RSub(RAdd(Ap1, RMul(Am1, cos_w0)), skirt))

HighShelfCoefficients(o) ==
    LET cos_w0 == CosW0(o)
        A == GainA(o)
        Ap1 == RAdd(A, One)
        Am1 == RSub(A, One)
        skirt == ShelfSkirt(o)
    IN  Coefficients(
            RMul(A, RAdd(RAdd(Ap1, RMul(Am1, cos_w0)), skirt)),
            RMul(RMul(R(-2), A), RAdd(Am1, RMul(Ap1, cos_w0))),
            RMul(A, RSub(RAdd(Ap1, RMul(Am1, cos_w0)), skirt)),
            RAdd(RSub(Ap1, RMul(Am1, cos_w0)), skirt),
            RMul(Two, RSub(Am1, RMul(Ap1, cos_w0))),
            RSub(RSub(Ap1, RMul(Am1, cos_w0)), skirt))

\* the virtual calculate_coefficients of the object's class
calculate_coefficients(o) ==
    CASE o.kind = "LowPassFilter"   -> LowPassCoefficients(o)
      [] o.kind = "HighPassFilter"  -> HighPassCoefficients(o)
      [] o.kind = "BandPassFilter"  -> BandPassCoefficients(o)
      [] o.kind = "NotchFilter"     -> NotchCoefficients(o)
      [] o.kind = "AllPassFilter"   -> AllPassCoefficients(o)
      [] o.kind = "PeakingEQFilter" -> PeakingEQCoefficients(o)
      [] o.kind = "LowShelfFilter"  -> LowShelfCoefficients(o)
      [] o.kind = "HighShelfFilter" -> HighShelfCoefficients(o)

\* verify_parameters halving the sample rate as an integer
verify_parameters_integer_half(cutoff, sampleRate, qFactor) ==
    ~(\/ sampleRate <= 0
      \/ RLe(cutoff, Zero)
      \/ RLe(qFactor, Zero)
      \/ RLt(R(sampleRate \div 2), cutoff))

verify_parameters(cutoff, sampleRate, qFactor) ==
    ~(\/ sampleRate <= 0
      \/ RLe(cutoff, Zero)
      \/ RLe(qFactor, Zero)
      \/ RLt(Rat(sampleRate, 2), cutoff))

\* FilterObject's default member initializers
DefaultObject ==
    [kind                |-> "none",
     m_filter            |-> nullopt,
     m_cutoff            |-> Zero,
     m_sampleRate        |-> 0,
     m_qFactor           |-> Zero,
     m_gain              |-> Zero,
     m_constantSkirtGain |-> FALSE,
     m_bypass            |-> FALSE]

\* the private constructor of class k; gain is stored by the kinds that
\* take it, constantSkirtGain by BandPassFilter
FilterType(k, cutoff, sampleRate, qFactor, gain, constantSkirtGain) ==
    LET o == [DefaultObject EXCEPT
                 !.kind = k,
                 !.m_cutoff = cutoff,
                 !.m_sampleRate = sampleRate,
                 !.m_qFactor = qFactor,
                 !.m_gain = IF k \in GainKinds THEN gain ELSE @,
                 !.m_constantSkirtGain =
                     IF k = "BandPassFilter" THEN constantSkirtGain ELSE @]
    IN  [o EXCEPT !.m_filter = create(calculate_coefficients(o))]

\* the factory of class k: the object, or DefaultObject for std::nullopt
\* the factory's last test: the constructed obj, unless it has no core
WithCore(obj) == IF ~obj.m_filter.has_value THEN DefaultObject ELSE obj

FilterType_create(k, cutoff, sampleRate, qFactor, gain, constantSkirtGain) ==
    IF ~verify_parameters(cutoff, sampleRate, qFactor) THEN DefaultObject
    ELSE WithCore(FilterType(k, cutoff, sampleRate, qFactor, gain,
                             constantSkirtGain))

\* the tail every setter shares: recompute, push into the core when there
\* is one (the core's own answer is dropped) and report whether there is one
\* the setter's answer after the core answered r to newCoefficients
Pushed(o, newCoefficients, r) ==
    [object |-> [o EXCEPT !.m_filter = r.filter], ret |-> TRUE,
     pushed |-> r.ret, coefficients |-> newCoefficients]

\* the push of newCoefficients into the core of o
Push(o, newCoefficients) ==
    IF o.m_filter.has_value
    THEN Pushed(o, newCoefficients,
                set_coefficients(o.m_filter, newCoefficients))
    ELSE [object |-> o, ret |-> FALSE,
          pushed |-> FALSE, coefficients |-> newCoefficients]

PushCoefficients(o) == Push(o, calculate_coefficients(o))

Rejected(o) ==
    [object |-> o, ret |-> FALSE, pushed |-> FALSE,
     coefficients |-> NoCoefficients]

\* set_cutoff storing the cutoff before it validates it
set_cutoff_stores_first(o, cutoff) ==
    IF RLe(cutoff, Zero) THEN Rejected([o EXCEPT !.m_cutoff = cutoff])
    ELSE PushCoefficients([o EXCEPT !.m_cutoff = cutoff])

set_cutoff(o, cutoff) ==
    IF RLe(cutoff, Zero) THEN Rejected(o)
    ELSE PushCoefficients([o EXCEPT !.m_cutoff = cutoff])

\* set_sample_rate switching the bypass off as well
set_sample_rate_clears_bypass(o, sampleRate) ==
    IF sampleRate <= 0 THEN Rejected(o)
    ELSE PushCoefficients([o EXCEPT !.m_sampleRate = sampleRate,
                                    !.m_bypass = FALSE])

set_sample_rate(o, sampleRate) ==
    IF sampleRate <= 0 THEN Rejected(o)
    ELSE PushCoefficients([o EXCEPT !.m_sampleRate = sampleRate])

\* set_q_factor refusing to act on a bypassed filter
set_q_factor_gated(o, qFactor) ==
    IF o.m_bypass \/ RLe(qFactor, Zero) THEN Rejected(o)
    ELSE PushCoefficients([o EXCEPT !.m_qFactor = qFactor])

set_q_factor(o, qFactor) ==
    IF RLe(qFactor, Zero) THEN Rejected(o)
    ELSE PushCoefficients([o EXCEPT !.m_qFactor = qFactor])

\* the Q set_bandwidth derives from a bandwidth
BandwidthToQ(bandwidth) ==
    Overflow(RDiv(One,
                  RMul(Two, Sinh(RDiv(RMul(bandwidth, Log10Of2), Two)))))

set_bandwidth(o, bandwidth) ==
    IF RLe(bandwidth, Zero) THEN Rejected(o)
    ELSE set_q_factor(o, BandwidthToQ(bandwidth))

get_bandwidth(o) ==
    RDiv(RMul(Two, Asinh(RDiv(One, Overflow(RMul(Two, o.m_qFactor))))),
         Log10Of2)

get_cutoff(o) == o.m_cutoff

get_sample_rate(o) == o.m_sampleRate

get_q_factor(o) == o.m_qFactor

get_gain(o) == o.m_gain

get_constant_skirt_gain(o) == o.m_constantSkirtGain

get_bypass(o) == o.m_bypass

set_gain(o, gain) == PushCoefficients([o EXCEPT !.m_gain = gain])

set_constant_skirt_gain(o, constantSkirtGain) ==
    PushCoefficients([o EXCEPT !.m_constantSkirtGain = constantSkirtGain])

\* set_bypass clearing the core's state
set_bypass_resets(o, bypass) ==
    [o EXCEPT !.m_bypass = bypass,
              !.m_filter = IF @.has_value THEN reset(@) ELSE @]

set_bypass(o, bypass) == [o EXCEPT !.m_bypass = bypass]

\* FilterObject::process(T&): the object, the sample and the returned flag
\* the object after its core answered r to a sample
Filtered(o, r) ==
    [object |-> [o EXCEPT !.m_filter = r.filter],
     sample |-> r.sample, ret |-> TRUE]

object_process(o, x0) ==
    IF o.m_bypass THEN [object |-> o, sample |-> x0, ret |-> FALSE]
    ELSE IF o.m_filter.has_value THEN Filtered(o, process(o.m_filter, x0))
    ELSE [object |-> o, sample |-> x0, ret |-> FALSE]

\* the object after its core answered r to a buffer: r.ret is dropped
FilteredBlock(o, r) ==
    [object |-> [o EXCEPT !.m_filter = r.filter],
     samples |-> r.samples, ret |-> TRUE, processed |-> r.ret]

\* process(T*, size_t) looking at the bypass flag only for its answer
object_process_block_filters_bypassed(o, buffer, count, isa, T) ==
    IF o.m_filter.has_value
    THEN LET r == process_block(o.m_filter, buffer, count, isa, T)
         IN  [object |-> [o EXCEPT !.m_filter = r.filter],
              samples |-> r.samples, ret |-> ~o.m_bypass,
              processed |-> r.ret]
    ELSE [object |-> o, samples |-> buffer, ret |-> FALSE, processed |-> FALSE]

\* FilterObject::process(T*, size_t): the core's answer is dropped
object_process_block(o, buffer, count, isa, T) ==
    IF o.m_bypass
    THEN [object |-> o, samples |-> buffer, ret |-> FALSE, processed |-> FALSE]
    ELSE IF o.m_filter.has_value
    THEN FilteredBlock(o, process_block(o.m_filter, buffer, count, isa, T))
    ELSE [object |-> o, samples |-> buffer, ret |-> FALSE, processed |-> FALSE]

(***************************************************************************)
(* State.                                                                  *)
(***************************************************************************)
VARIABLES
    m_filter,            \* the optional core: nullopt or a core record
    isa,                 \* instruction set the block path was compiled for
    T,                   \* the value type: "float" or "double"
    kind,                \* the FilterObject subclass, "none" for a bare core
    m_cutoff, m_sampleRate, m_qFactor, m_gain, m_constantSkirtGain, m_bypass,
    op,                  \* the last call
    arg,                 \* its argument
    ret,                 \* the value it returned
    samples,             \* the caller's sample or buffer after the call
    accepted,            \* the coefficients the core accepted last, as given
    fed,                 \* samples handed to the core since its last reset
    prior,               \* the value of fed when the last call was made
    twin,                \* the core of the same filter object had it never
                         \* been bypassed: it sees the setter calls, and the
                         \* samples processed while the bypass flag is off
    skipped              \* process calls refused since the filter's creation

core_vars == <<m_filter, isa, T>>

object_vars == <<kind, m_cutoff, m_sampleRate, m_qFactor, m_gain,
                 m_constantSkirtGain, m_bypass>>

call_vars == <<op, arg, ret, samples, accepted, fed, prior>>

twin_vars == <<twin, skipped>>

vars == <<core_vars, object_vars, call_vars, twin_vars>>

\* the sample values callers pass
SampleValues == {Zero, One}

\* the coefficient sets callers pass to create and set_coefficients:
\* every numerator with every denominator, a0 = 0 among them
Numerators == {<<1, 0, 0>>, <<0, 0, 0>>, <<2, 1, 1>>}

Denominators == {<<1, 0, 0>>, <<2, 1, 1>>, <<0, 0, 0>>, <<0, 1, 1>>}

CoefficientSets ==
    {Coefficients(R(b[1]), R(b[2]), R(b[3]), R(a[1]), R(a[2]), R(a[3])) :
        b \in Numerators, a \in Denominators}

RECURSIVE SeqsUpTo(_, _)
SeqsUpTo(S, n) ==
    IF n = 0 THEN {<<>>}
    ELSE LET shorter == SeqsUpTo(S, n - 1)
         IN  shorter \cup {Append(q, v) : q \in {p \in shorter : Len(p) = n - 1},
                                         v \in S}

Buffers == SeqsUpTo(SampleValues, MaxLen)

\* the counts passed with a buffer: its length, and 0 with a one-sample buffer
Counts(buffer) == IF Len(buffer) = 1 THEN {0, 1} ELSE {Len(buffer)}

InstructionSets == {"AVX", "SSE4_1", "ARM_NEON", "scalar"}

ValueTypes == {"float", "double"}

\* the parameter values callers pass to the factories and the setters
CutoffValues == {Zero, Rat(1, 2), One, Rat(3, 2)}

SampleRates == {0, 1, 2}

QFactors == {Zero, Rat(1, 2), One}

Gains == {R(0), R(80), R(-13000)}

BandwidthValues == {R(-1), Zero, R(4), Rat(1, 100000)}

\* the object the state variables hold
This ==
    [kind                |-> kind,
     m_filter            |-> m_filter,
     m_cutoff            |-> m_cutoff,
     m_sampleRate        |-> m_sampleRate,
     m_qFactor           |-> m_qFactor,
     m_gain              |-> m_gain,
     m_constantSkirtGain |-> m_constantSkirtGain,
     m_bypass            |-> m_bypass]

\* the state variables hold object o after the step
Becomes(o) ==
    /\ kind' = o.kind
    /\ m_filter' = o.m_filter
    /\ m_cutoff' = o.m_cutoff
    /\ m_sampleRate' = o.m_sampleRate
    /\ m_qFactor' = o.m_qFactor
    /\ m_gain' = o.m_gain
    /\ m_constantSkirtGain' = o.m_constantSkirtGain
    /\ m_bypass' = o.m_bypass

Init ==
    /\ m_filter = nullopt
    /\ isa \in InstructionSets
    /\ T \in ValueTypes
    /\ kind = DefaultObject.kind
    /\ m_cutoff = DefaultObject.m_cutoff
    /\ m_sampleRate = DefaultObject.m_sampleRate
    /\ m_qFactor = DefaultObject.m_qFactor
    /\ m_gain = DefaultObject.m_gain
    /\ m_constantSkirtGain = DefaultObject.m_constantSkirtGain
    /\ m_bypass = DefaultObject.m_bypass
    /\ op = "none"
    /\ arg = <<>>
    /\ ret = FALSE
    /\ samples = <<>>
    /\ accepted = NoCoefficients
    /\ fed = 0
    /\ prior = 0
    /\ twin = nullopt
    /\ skipped = 0

(***************************************************************************)
(* A caller using a bare DigitalBiquadFilter.                              *)
(***************************************************************************)
Create(c) ==
    /\ m_filter' = create(c)
    /\ op' = "create"
    /\ prior' = fed
    /\ arg' = c
    /\ ret' = m_filter'.has_value
    /\ samples' = <<>>
    /\ accepted' = IF m_filter'.has_value THEN c ELSE NoCoefficients
    /\ fed' = 0
    /\ UNCHANGED <<isa, T, object_vars, twin_vars>>

\* the core and the caller's sample after a call that answered r
Answered(r) ==
    /\ m_filter' = r.filter
    /\ samples' = <<r.sample>>

Process(x0) ==
    /\ m_filter.has_value
    /\ fed < MaxFed
    /\ Answered(process(m_filter, x0))
    /\ op' = "process"
    /\ prior' = fed
    /\ arg' = <<x0>>
    /\ ret' = TRUE
    /\ fed' = fed + 1
    /\ UNCHANGED <<isa, T, object_vars, accepted, twin_vars>>

\* the core and the caller's buffer after a block call that answered r
AnsweredBlock(count, r) ==
    /\ m_filter' = r.filter
    /\ samples' = IF r.samples.null THEN <<>> ELSE r.samples.mem
    /\ ret' = r.ret
    /\ fed' = IF r.ret THEN fed + count ELSE fed

ProcessBlock(buffer, count) ==
    /\ m_filter.has_value
    /\ fed + count <= MaxFed
    /\ AnsweredBlock(count, process_block(m_filter, buffer, count, isa, T))
    /\ op' = "process_block"
    /\ prior' = fed
    /\ arg' = <<buffer, count>>
    /\ UNCHANGED <<isa, T, object_vars, accepted, twin_vars>>

SetCoefficients(c) ==
    /\ m_filter.has_value
    /\ LET r == set_coefficients(m_filter, c)
       IN  /\ m_filter' = r.filter
           /\ ret' = r.ret
           /\ accepted' = IF r.ret THEN c ELSE accepted
           /\ fed' = IF r.ret THEN 0 ELSE fed
    /\ op' = "set_coefficients"
    /\ prior' = fed
    /\ arg' = c
    /\ samples' = <<>>
    /\ UNCHANGED <<isa, T, object_vars, twin_vars>>

Reset ==
    /\ m_filter.has_value
    /\ m_filter' = reset(m_filter)
    /\ op' = "reset"
    /\ prior' = fed
    /\ arg' = <<>>
    /\ ret' = TRUE
    /\ samples' = <<>>
    /\ fed' = 0
    /\ UNCHANGED <<isa, T, object_vars, accepted, twin_vars>>

Next ==
    \/ \E c \in CoefficientSets : Create(c)
    \/ \E x0 \in SampleValues : Process(x0)
    \/ \E buffer \in Buffers : \E count \in Counts(buffer) :
          ProcessBlock(Ptr(buffer), count)
    \/ \E count \in 0..1 : ProcessBlock(nullptr, count)
    \/ \E c \in CoefficientSets : SetCoefficients(c)
    \/ Reset

Spec == Init /\ [][Next]_vars

(***************************************************************************)
(* A caller using a filter kind through FilterObject.                      *)
(***************************************************************************)
\* the arguments the factory of class k takes
CreateGains(k) == IF k \in GainKinds THEN Gains ELSE {Zero}

CreateSkirts(k) == IF k = "BandPassFilter" THEN BOOLEAN ELSE {FALSE}

\* the caller holding what the factory returned
Returned(o) ==
    /\ Becomes(o)
    /\ ret' = (o.kind # "none")
    /\ accepted' = IF o.kind # "none" THEN calculate_coefficients(o)
                   ELSE NoCoefficients

FilterCreate(k, cutoff, sampleRate, qFactor, gain, constantSkirtGain) ==
    /\ op = "none"
    /\ Returned(FilterType_create(k, cutoff, sampleRate, qFactor, gain,
                                  constantSkirtGain))
    /\ op' = "create"
    /\ prior' = fed
    /\ arg' = <<k, cutoff, sampleRate, qFactor, gain, constantSkirtGain>>
    /\ samples' = <<>>
    /\ fed' = 0
    /\ twin' = m_filter'
    /\ skipped' = 0
    /\ UNCHANGED <<isa, T>>

\* a setter call with result r
Setter(name, value, r) ==
    /\ kind # "none"
    /\ Becomes(r.object)
    /\ ret' = r.ret
    /\ accepted' = IF r.pushed THEN r.coefficients ELSE accepted
    /\ fed' = IF r.pushed THEN 0 ELSE fed
    /\ op' = name
    /\ prior' = fed
    /\ arg' = <<value>>
    /\ samples' = <<>>
    /\ twin' = IF r.pushed THEN set_coefficients(twin, r.coefficients).filter
               ELSE twin
    /\ UNCHANGED <<isa, T, skipped>>

SetCutoff(cutoff) == Setter("set_cutoff", cutoff, set_cutoff(This, cutoff))

SetSampleRate(sampleRate) ==
    Setter("set_sample_rate", sampleRate, set_sample_rate(This, sampleRate))

SetQFactor(qFactor) ==
    Setter("set_q_factor", qFactor, set_q_factor(This, qFactor))

SetBandwidth(bandwidth) ==
    Setter("set_bandwidth", bandwidth, set_bandwidth(This, bandwidth))

SetGain(gain) == Setter("set_gain", gain, set_gain(This, gain))

SetConstantSkirtGain(constantSkirtGain) ==
    Setter("set_constant_skirt_gain", constantSkirtGain,
           set_constant_skirt_gain(This, constantSkirtGain))

SetBypass(bypass) ==
    /\ kind # "none"
    /\ Becomes(set_bypass(This, bypass))
    /\ op' = "set_bypass"
    /\ prior' = fed
    /\ arg' = <<bypass>>
    /\ ret' = TRUE
    /\ samples' = <<>>
    /\ UNCHANGED <<isa, T, accepted, fed, twin_vars>>

\* process(sample) with result r, and with result t on the twin
Sampled(x0, r, t) ==
    /\ Becomes(r.object)
    /\ samples' = <<r.sample>>
    /\ ret' = r.ret
    /\ fed' = IF r.ret THEN fed + 1 ELSE fed
    /\ skipped' = IF r.ret THEN skipped ELSE skipped + 1
    /\ twin' = IF m_bypass THEN twin ELSE t.filter
    /\ op' = "process"
    /\ prior' = fed
    /\ arg' = <<x0>>
    /\ UNCHANGED <<isa, T, accepted>>

FilterProcess(x0) ==
    /\ kind # "none"
    /\ fed < MaxObjectFed
    /\ m_bypass => skipped < MaxSkipped
    /\ Sampled(x0, object_process(This, x0), process(twin, x0))

\* process(buffer, count) with result r, and with result t on the twin
Blocked(buffer, count, r, t) ==
    /\ Becomes(r.object)
    /\ samples' = IF r.samples.null THEN <<>> ELSE r.samples.mem
    /\ ret' = r.ret
    /\ fed' = IF r.processed THEN fed + count ELSE fed
    /\ skipped' = IF r.ret THEN skipped ELSE skipped + 1
    /\ twin' = IF m_bypass THEN twin ELSE t.filter
    /\ op' = "process_block"
    /\ prior' = fed
    /\ arg' = <<buffer, count>>
    /\ UNCHANGED <<isa, T, accepted>>

FilterProcessBlock(buffer, count) ==
    /\ kind # "none"
    /\ fed + count <= MaxObjectFed
    /\ m_bypass => skipped < MaxSkipped
    /\ Blocked(buffer, count,
               object_process_block(This, buffer, count, isa, T),
               process_block(twin, buffer, count, isa, T))

FilterNext ==
    \/ \E k \in Kinds, cutoff \in CutoffValues, sampleRate \in SampleRates,
          qFactor \in QFactors :
          \E gain \in CreateGains(k), constantSkirtGain \in CreateSkirts(k) :
             FilterCreate(k, cutoff, sampleRate, qFactor, gain,
                          constantSkirtGain)
    \/ \E cutoff \in CutoffValues : SetCutoff(cutoff)
    \/ \E sampleRate \in SampleRates : SetSampleRate(sampleRate)
    \/ \E qFactor \in QFactors : SetQFactor(qFactor)
    \/ \E bandwidth \in BandwidthValues : SetBandwidth(bandwidth)
    \/ \E gain \in Gains : SetGain(gain)
    \/ \E constantSkirtGain \in BOOLEAN :
          SetConstantSkirtGain(constantSkirtGain)
    \/ \E bypass \in BOOLEAN : SetBypass(bypass)

\* the factories and the setters, which never look at the block path: one
\* build is enough
FilterInit == Init /\ isa = "scalar" /\ T = "double"

FilterSpec == FilterInit /\ [][FilterNext]_vars

(***************************************************************************)
(* A caller processing samples through a filter object, bypassing it and   *)
(* moving its cutoff in between.                                           *)
(***************************************************************************)
\* the Q factors the caller creates its filter with
UseQFactors == {Rat(1, 2), One}

\* the buffers the caller hands to process(buffer, count)
UseBuffers == {buffer \in Buffers : Len(buffer) \in 1..MaxObjectFed}

UseNext ==
    \/ \E k \in Kinds, qFactor \in UseQFactors :
          FilterCreate(k, Rat(1, 2), 2, qFactor, Zero, FALSE)
    \/ \E cutoff \in {Zero, One} : SetCutoff(cutoff)
    \/ \E bypass \in BOOLEAN : SetBypass(bypass)
    \/ \E x0 \in SampleValues : FilterProcess(x0)
    \/ \E buffer \in UseBuffers : \E count \in Counts(buffer) :
          FilterProcessBlock(Ptr(buffer), count)
    \/ \E count \in 0..1 : FilterProcessBlock(nullptr, count)

\* the builds the caller is compiled for: the scalar path and a vector path
\* of two lanes
UseInit == Init /\ T = "double" /\ isa \in {"scalar", "SSE4_1"}

UseSpec == UseInit /\ [][UseNext]_vars

(***************************************************************************)
(* A caller retuning a filter object between samples: every setter, the    *)
(* bypass switch and process(sample).                                      *)
(***************************************************************************)
\* the cutoffs the caller moves its filter to: a quarter of the sample rate
\* and three quarters of it
TuneCutoffs == {Rat(1, 2), Rat(3, 2)}

\* the sample rate the caller sets: the one it created the filter with
TuneSampleRates == {2}

\* the Q factor the caller sets: the one it created the filter with
TuneQFactors == {Rat(1, 2)}

\* the bandwidth the caller sets
TuneBandwidths == {R(4)}

\* the gains the caller sets: none, and one whose 10^(gain/40) underflows
TuneGains == {R(0), R(-13000)}

TuneNext ==
    \/ \E k \in Kinds : FilterCreate(k, Rat(1, 2), 2, Rat(1, 2), Zero, FALSE)
    \/ \E cutoff \in TuneCutoffs : SetCutoff(cutoff)
    \/ \E sampleRate \in TuneSampleRates : SetSampleRate(sampleRate)
    \/ \E qFactor \in TuneQFactors : SetQFactor(qFactor)
    \/ \E bandwidth \in TuneBandwidths : SetBandwidth(bandwidth)
    \/ \E gain \in TuneGains : SetGain(gain)
    \/ \E constantSkirtGain \in BOOLEAN :
          SetConstantSkirtGain(constantSkirtGain)
    \/ \E bypass \in BOOLEAN : SetBypass(bypass)
    \/ FilterProcess(One)

TuneSpec == FilterInit /\ [][TuneNext]_vars

(***************************************************************************)
(* A caller setting the design parameters of a filter object and reading   *)
(* them back.                                                              *)
(***************************************************************************)
\* a call of a const accessor returning value
Getter(name, value) ==
    /\ kind # "none"
    /\ op' = name
    /\ prior' = fed
    /\ arg' = <<>>
    /\ ret' = value
    /\ samples' = <<>>
    /\ UNCHANGED <<core_vars, object_vars, accepted, fed, twin_vars>>

GetCutoff == Getter("get_cutoff", get_cutoff(This))

GetSampleRate == Getter("get_sample_rate", get_sample_rate(This))

GetQFactor == Getter("get_q_factor", get_q_factor(This))

GetGain == Getter("get_gain", get_gain(This))

GetConstantSkirtGain ==
    Getter("get_constant_skirt_gain", get_constant_skirt_gain(This))

GetBypass == Getter("get_bypass", get_bypass(This))

ParameterNext ==
    \/ \E k \in Kinds, cutoff \in CutoffValues, sampleRate \in SampleRates,
          qFactor \in QFactors :
          FilterCreate(k, cutoff, sampleRate, qFactor, Zero, FALSE)
    \/ \E cutoff \in CutoffValues : SetCutoff(cutoff)
    \/ \E sampleRate \in SampleRates : SetSampleRate(sampleRate)
    \/ \E qFactor \in QFactors : SetQFactor(qFactor)
    \/ \E bypass \in BOOLEAN : SetBypass(bypass)
    \/ GetCutoff
    \/ GetSampleRate
    \/ GetQFactor
    \/ GetGain
    \/ GetConstantSkirtGain
    \/ GetBypass

ParameterSpec == FilterInit /\ [][ParameterNext]_vars

(***************************************************************************)
(* Properties.                                                             *)
(***************************************************************************)
\* count successive process(sample) calls on buffer, in index order
RECURSIVE SampleBySample(_, _, _)
SampleBySample(f, buffer, i) ==
    IF i > Len(buffer) THEN [filter |-> f, samples |-> buffer]
    ELSE LET r == process(f, buffer[i])
         IN  SampleBySample(r.filter, [buffer EXCEPT ![i] = r.sample], i + 1)

\* the outputs of core f for the input sequence xs
Outputs(f, xs) == SampleBySample(f, xs, 1).samples

\* the input sequences of full length; the outputs for a shorter sequence
\* are a prefix of the outputs for its extensions
InputSequences == {xs \in Buffers : Len(xs) = MaxLen}

\* the buffer and the count of the last process(buffer, count) call
BlockBuffer(a) == a[1].mem

BlockCount(a) == a[2]

\* C1: process(buffer, N) with N >= 1 leaves the buffer and the state
\* {x1, x2, y1, y2} as N successive process(sample) calls in index order do,
\* whichever path the build takes.
C1_BlockEqualsSampleBySample ==
    [][(op' = "process_block" /\ ret')
        => LET n == BlockCount(arg')
               ref == SampleBySample(m_filter, SubSeq(BlockBuffer(arg'), 1, n), 1)
           IN  /\ SubSeq(samples', 1, n) = ref.samples
               /\ m_filter'.m_state = ref.filter.m_state]_vars

\* C2: when process(buffer, count) returns true, every sample at index
\* 0..count-1 holds its filtered output, the trailing count mod width
\* samples included.
C2_EverySampleFiltered ==
    [][(op' = "process_block" /\ ret')
        => \A i \in 1..BlockCount(arg') :
              samples'[i] = Outputs(m_filter, BlockBuffer(arg'))[i]]_vars

\* the difference equation y = b0 x0 + b1 x1 + b2 x2 - a1 y1 - a2 y2
DifferenceEquation(c, s, x0) ==
    RSub(RAdd(RMul(c.b0, x0), RAdd(RMul(c.b1, s.x1), RMul(c.b2, s.x2))),
         RAdd(RMul(c.a1, s.y1), RMul(c.a2, s.y2)))

\* C3: process(sample) writes y = b0 x0 + b1 x1 + b2 x2 - a1 y1 - a2 y2 of
\* the state read before the call back to the sample, shifts the state to
\* x2' = x1, x1' = x0, y2' = y1, y1' = y and leaves the coefficients alone.
C3_ProcessSample ==
    [][op' = "process"
        => LET x0 == arg'[1]
               s == m_filter.m_state
               y == DifferenceEquation(m_filter.m_coefficients, s, x0)
           IN  /\ samples' = <<y>>
               /\ m_filter'.m_state = State(x0, s.x1, y, s.y1)
               /\ m_filter'.m_coefficients = m_filter.m_coefficients]_vars

\* a sample processed with every term of the recurrence in play
C3_Witness ==
    /\ op = "process"
    /\ m_filter.m_coefficients.a2 # Zero
    /\ m_filter.m_coefficients.b2 # Zero
    /\ m_filter.m_state.x2 # Zero
    /\ m_filter.m_state.y2 # Zero

\* C4: create returns an empty optional exactly when a0 = 0, whatever the
\* other coefficients; for a0 # 0 the instance's state is all zero.
C4_CreateChecksA0 ==
    op = "create"
        => /\ ~m_filter.has_value <=> arg.a0 = Zero
           /\ ret <=> m_filter.has_value
           /\ arg.a0 # Zero => m_filter.m_state = ZeroState

\* a0 = 0 rejected with the other denominator coefficients nonzero
C4_Witness ==
    /\ op = "create"
    /\ arg.a0 = Zero
    /\ arg.a1 # Zero
    /\ arg.b0 # Zero
    /\ ~m_filter.has_value

\* stored coefficient v is coefficient x of the accepted set over its a0
NormalizedFrom(v, x, a0) == IsFinite(v) /\ RMul(v, a0) = x

\* C5: in every reachable state of a core the stored a0 is 1 and the stored
\* b0, b1, b2, a1, a2 are the most recently accepted coefficients divided
\* by their original a0.
C5_CoefficientsNormalized ==
    m_filter.has_value
        => LET c == m_filter.m_coefficients
           IN  /\ c.a0 = One
               /\ NormalizedFrom(c.b0, accepted.b0, accepted.a0)
               /\ NormalizedFrom(c.b1, accepted.b1, accepted.a0)
               /\ NormalizedFrom(c.b2, accepted.b2, accepted.a0)
               /\ NormalizedFrom(c.a1, accepted.a1, accepted.a0)
               /\ NormalizedFrom(c.a2, accepted.a2, accepted.a0)

\* coefficients with a0 = 2 accepted by set_coefficients, samples processed
\* since
C5_Witness ==
    /\ op = "process"
    /\ fed = 2
    /\ accepted.a0 = Two
    /\ accepted.a1 = One
    /\ m_filter.m_coefficients.a1 = Rat(1, 2)
    /\ m_filter.m_coefficients.b0 = One

\* C6: set_coefficients with a0 = 0 returns false and leaves the core's
\* coefficients, state and sample counter as they were.
C6_RejectedCoefficientsChangeNothing ==
    [][(op' = "set_coefficients" /\ arg'.a0 = Zero)
        => /\ ret' = FALSE
           /\ m_filter' = m_filter]_vars

\* a0 = 0 rejected by a core that has samples in its state
C6_Witness ==
    /\ op = "set_coefficients"
    /\ arg.a0 = Zero
    /\ arg.b0 # Zero
    /\ ~ret
    /\ m_filter.m_state.y2 # Zero
    /\ m_filter.m_iter > 0

\* C7: after set_coefficients(c) returned true, whatever was processed
\* before, the outputs for any input sequence are those of a core freshly
\* created with c for the same sequence.
C7_NoStateLeaksThroughCoefficientChange ==
    (op = "set_coefficients" /\ ret)
        => \A xs \in InputSequences :
               Outputs(m_filter, xs) = Outputs(create(arg), xs)

\* new coefficients accepted after samples were processed
C7_Witness ==
    /\ op = "set_coefficients"
    /\ ret
    /\ prior = MaxFed
    /\ arg.a1 # Zero
    /\ arg.b1 # Zero

\* C8: reset() zeroes x1, x2, y1, y2 and the sample counter and leaves the
\* coefficients unchanged, so the outputs afterwards are those of a freshly
\* created core with the same coefficients.
C8_ResetZeroesStateOnly ==
    /\ [][op' = "reset"
            => /\ m_filter'.m_state = ZeroState
               /\ m_filter'.m_iter = 0
               /\ m_filter'.m_coefficients = m_filter.m_coefficients]_vars
    /\ [](op = "reset"
            => \A xs \in InputSequences :
                  Outputs(m_filter, xs)
                      = Outputs(create(m_filter.m_coefficients), xs))

\* a reset of a core with feedback that had processed samples
C8_Witness ==
    /\ op = "reset"
    /\ prior = MaxFed
    /\ m_filter.m_coefficients.a2 # Zero
    /\ m_filter.m_coefficients.b0 # Zero
    /\ m_filter.m_state = ZeroState

\* the arguments of the last factory call
CreateKind == arg[1]

CreateCutoff == arg[2]

CreateSampleRate == arg[3]

CreateQFactor == arg[4]

\* the condition under which the factories are documented to fail
InvalidParameters(cutoff, sampleRate, qFactor) ==
    \/ sampleRate <= 0
    \/ RLe(cutoff, Zero)
    \/ RLe(qFactor, Zero)
    \/ RLt(Rat(sampleRate, 2), cutoff)

\* the a0 the formulas of class arg[1] derive from the arguments
DerivedA0 ==
    calculate_coefficients(
        [DefaultObject EXCEPT
            !.kind = arg[1],
            !.m_cutoff = arg[2],
            !.m_sampleRate = arg[3],
            !.m_qFactor = arg[4],
            !.m_gain = arg[5],
            !.m_constantSkirtGain = arg[6]]).a0

\* C9 as stated: a factory returns an empty optional if and only if
\* sampleRate <= 0 or cutoff <= 0 or qFactor <= 0 or cutoff > sampleRate/2.
C9_CreateEmptyIffInvalidParameters ==
    op = "create"
        => (~ret <=> InvalidParameters(CreateCutoff, CreateSampleRate,
                                       CreateQFactor))

\* C9: a factory returns an empty optional if and only if sampleRate <= 0 or
\* cutoff <= 0 or qFactor <= 0 or cutoff > sampleRate/2, or the parameters
\* pass that validation and the a0 derived from them is 0; a cutoff equal to
\* sampleRate/2 passes the validation and sampleRate = 0 is rejected. An
\* object returned holds the parameters it was created with.
C9_CreateEmptyIffInvalidOrZeroA0 ==
    op = "create"
        => /\ ~ret <=>
                \/ InvalidParameters(CreateCutoff, CreateSampleRate,
                                     CreateQFactor)
                \/ REq(DerivedA0, Zero)
           /\ ret <=> m_filter.has_value
           /\ ret => /\ kind = CreateKind
                     /\ m_cutoff = CreateCutoff
                     /\ m_sampleRate = CreateSampleRate
                     /\ m_qFactor = CreateQFactor
           /\ (CreateSampleRate = 0) => ~ret

\* a shelving filter created with its cutoff exactly at half an odd sample
\* rate
C9_Witness ==
    /\ op = "create"
    /\ ret
    /\ kind = "HighShelfFilter"
    /\ m_sampleRate = 1
    /\ m_cutoff = Rat(1, 2)
    /\ m_filter.has_value

\* C10 as stated: in every reachable state of a factory-created filter the
\* stored cutoff is at most half the stored sample rate.
C10_CutoffWithinNyquist ==
    kind # "none" => RLe(m_cutoff, Rat(m_sampleRate, 2))

\* the last call was a validating setter given a non-positive argument
NonPositiveSetterCall ==
    \/ op \in {"set_cutoff", "set_q_factor", "set_bandwidth"}
          /\ RLe(arg[1], Zero)
    \/ op = "set_sample_rate" /\ arg[1] <= 0

RecomputingSetters ==
    {"set_cutoff", "set_sample_rate", "set_q_factor", "set_bandwidth",
     "set_gain", "set_constant_skirt_gain"}

\* C12 as stated: in every reachable state of a factory-created filter the
\* core's coefficients are the normalized result of the type's formula on
\* the stored parameters, and whenever a setter returns true the core has
\* accepted the coefficients derived from the new parameters.
C12_CoreHoldsDerivedCoefficients ==
    kind # "none"
        => /\ m_filter.m_coefficients
                  = normalize_coefficients(calculate_coefficients(This))
           /\ (op \in RecomputingSetters /\ ret)
                  => accepted = calculate_coefficients(This)

\* the sample or the buffer the caller handed to the last process call
Handed ==
    IF op = "process" THEN arg
    ELSE IF arg[1].null THEN <<>> ELSE arg[1].mem

\* C13: while the bypass flag is true, process(sample) and
\* process(buffer, count) return false and change neither the sample or the
\* buffer, nor the core's state, sample counter and coefficients.
C13_BypassedProcessDoesNothing ==
    [][(op' \in {"process", "process_block"} /\ m_bypass)
        => /\ ret' = FALSE
           /\ samples' = Handed'
           /\ This' = This]_vars

\* a buffer refused by a bypassed filter whose core holds earlier samples
C13_Witness ==
    /\ op = "process_block"
    /\ m_bypass
    /\ ~ret
    /\ ~arg[1].null
    /\ arg[2] = MaxObjectFed - 1
    /\ One \in {samples[i] : i \in 1..Len(samples)}
    /\ m_filter.m_state.y1 # Zero
    /\ m_filter.m_coefficients.b0 # Zero
    /\ m_filter.m_iter > 0

\* C14: set_bypass(b) changes only the bypass flag, and a process call made
\* with the flag off, whatever was bypassed before, returns true and gives
\* the outputs of the same filter never bypassed and fed only the samples
\* processed while the flag was off.
C14_BypassLeavesFilterReady ==
    /\ [][op' = "set_bypass"
            => This' = [This EXCEPT !.m_bypass = arg'[1]]]_vars
    /\ [][(op' = "process" /\ ~m_bypass)
            => /\ ret'
               /\ samples' = <<process(twin, arg'[1]).sample>>]_vars
    /\ [][(op' = "process_block" /\ ~m_bypass)
            => /\ ret'
               /\ LET r == process_block(twin, arg'[1], arg'[2], isa, T)
                  IN  samples' = IF r.samples.null THEN <<>>
                                 ELSE r.samples.mem]_vars
    /\ [](kind # "none" => m_filter = twin)

\* a sample processed after the filter had processed one, been bypassed,
\* refused a call and been taken out of bypass
C14_Witness ==
    /\ op = "process"
    /\ ret
    /\ ~m_bypass
    /\ skipped > 0
    /\ prior > 0
    /\ samples[1] # Zero
    /\ m_filter.m_state.y2 # Zero
    /\ m_filter.m_iter = 2

\* C15: the core's process(buffer, count) returns false when the buffer is
\* null or count is 0, writing no sample and leaving the core's state and
\* sample counter unchanged; for a non-null buffer and count >= 1 it returns
\* true.
C15_BlockRefusesNullAndEmpty ==
    [][op' = "process_block"
        => IF BlockCount(arg') = 0 \/ arg'[1].null
           THEN /\ ret' = FALSE
                /\ samples' = Handed'
                /\ m_filter' = m_filter
           ELSE ret' = TRUE]_vars

\* a one-sample buffer handed over with count 0 to a core that had
\* processed samples
C15_Witness ==
    /\ op = "process_block"
    /\ ~ret
    /\ ~arg[1].null
    /\ arg[2] = 0
    /\ samples = <<One>>
    /\ m_filter.m_coefficients.b0 = Two
    /\ m_filter.m_state.y2 # Zero
    /\ m_filter.m_iter = 2

\* C16 as stated: for every bandwidth bw > 0 that set_bandwidth accepts, a
\* get_bandwidth() that follows returns bw, and set_bandwidth changes no
\* parameter other than Q.
C16_BandwidthRoundTrip ==
    /\ [][(op' = "set_bandwidth" /\ ret')
            => This' = [This EXCEPT !.m_qFactor = m_qFactor',
                                    !.m_filter = m_filter']]_vars
    /\ []((op = "set_bandwidth" /\ ret) => get_bandwidth(This) = arg[1])

GetterNames ==
    {"get_cutoff", "get_sample_rate", "get_q_factor", "get_gain",
     "get_constant_skirt_gain", "get_bypass"}

\* a setter and the getter that reads what it stored
SetThenGet ==
    {<<"set_cutoff", "get_cutoff">>, <<"set_sample_rate", "get_sample_rate">>,
     <<"set_q_factor", "get_q_factor">>}

\* C17: on a factory-created filter, set_cutoff(c) with c > 0,
\* set_sample_rate(r) with r > 0 and set_q_factor(q) with q > 0 return true,
\* the matching getter then returns exactly the value set, the other stored
\* design parameters and the bypass flag are unchanged, and a getter never
\* changes any state.
C17_SettersStoreGettersRead ==
    /\ [][(op' = "set_cutoff" /\ RLt(Zero, arg'[1]))
            => /\ ret' = TRUE
               /\ get_cutoff(This') = arg'[1]
               /\ This' = [This EXCEPT !.m_cutoff = m_cutoff',
                                       !.m_filter = m_filter']]_vars
    /\ [][(op' = "set_sample_rate" /\ arg'[1] > 0)
            => /\ ret' = TRUE
               /\ get_sample_rate(This') = arg'[1]
               /\ This' = [This EXCEPT !.m_sampleRate = m_sampleRate',
                                       !.m_filter = m_filter']]_vars
    /\ [][(op' = "set_q_factor" /\ RLt(Zero, arg'[1]))
            => /\ ret' = TRUE
               /\ get_q_factor(This') = arg'[1]
               /\ This' = [This EXCEPT !.m_qFactor = m_qFactor',
                                       !.m_filter = m_filter']]_vars
    /\ [][op' \in GetterNames
            => /\ This' = This
               /\ (<<op, op'>> \in SetThenGet /\ ret => ret' = arg[1])]_vars

\* the sample rate read back as 1 from a bypassed filter whose cutoff had
\* been moved above it and whose Q had been changed
C17_Witness ==
    /\ op = "get_sample_rate"
    /\ ret = 1
    /\ kind = "NotchFilter"
    /\ m_bypass
    /\ m_cutoff = Rat(3, 2)
    /\ m_qFactor = Rat(1, 2)

\* the identity filter
Identity == Coefficients(One, Zero, Zero, One, Zero, Zero)

\* C18: a core whose coefficients were given as b0 = a0 = 1 and
\* b1 = b2 = a1 = a2 = 0 returns every input sample unchanged, through
\* process(sample) and process(buffer, count) alike, on every build.
C18_IdentityLeavesInputUnchanged ==
    [][(accepted = Identity /\ op' \in {"process", "process_block"})
         => samples' = Handed']_vars

\* an identity core on the two-lane vector build handed 1, 0, 1 in one block
\* after a single sample
C18_Witness ==
    /\ op = "process_block"
    /\ ret
    /\ accepted = Identity
    /\ isa = "SSE4_1"
    /\ T = "double"
    /\ arg[2] = 2
    /\ prior = 1
    /\ samples = <<One, Zero>>
    /\ m_filter.m_state.x2 = One

\* coefficients whose numerator is zero
ZeroNumerator(c) == REq(c.b0, Zero) /\ REq(c.b1, Zero) /\ REq(c.b2, Zero)

\* C19 as stated: while the core's coefficients have b0 = b1 = b2 = 0, every
\* output of process is 0, for any input, any a1 and a2 and after any
\* preceding operations.
C19_ZeroNumeratorGivesZero ==
    [][(/\ m_filter.has_value
        /\ ZeroNumerator(m_filter.m_coefficients)
        /\ op' \in {"process", "process_block"}
        /\ ret')
         => \A i \in 1..Len(samples') : REq(samples'[i], Zero)]_vars

\* the impulse 1, 0, 0, ... of n samples
Impulse(n) == [i \in 1..n |-> IF i = 1 THEN One ELSE Zero]

\* the analytic impulse response of coefficients c at index n, from 0
RECURSIVE ImpulseResponseAt(_, _)
ImpulseResponseAt(c, n) ==
    LET fromOutputs ==
            RSub(IF n >= 1
                 THEN RNeg(RMul(RDiv(c.a1, c.a0), ImpulseResponseAt(c, n - 1)))
                 ELSE Zero,
                 IF n >= 2
                 THEN RMul(RDiv(c.a2, c.a0), ImpulseResponseAt(c, n - 2))
                 ELSE Zero)
        fromInput ==
            CASE n = 0 -> RDiv(c.b0, c.a0)
              [] n = 1 -> RDiv(c.b1, c.a0)
              [] n = 2 -> RDiv(c.b2, c.a0)
              [] OTHER -> Zero
    IN  RAdd(fromInput, fromOutputs)

ImpulseResponse(c, n) == [i \in 1..n |-> ImpulseResponseAt(c, i - 1)]

\* C20 as stated: for every coefficient set with a0 != 0, the impulse
\* 1, 0, 0, ... processed by a freshly created core yields h0 = b0/a0,
\* h1 = b1/a0 - (a1/a0) h0, h2 = b2/a0 - (a1/a0) h1 - (a2/a0) h0 and
\* hn = -(a1/a0) h(n-1) - (a2/a0) h(n-2) from n = 3 on, through
\* process(sample) and through process(buffer, count) alike.
C20_ImpulseResponse ==
    (op = "create" /\ ret)
        => \A n \in 1..MaxLen :
              /\ Outputs(m_filter, Impulse(n)) = ImpulseResponse(arg, n)
              /\ process_block(m_filter, Ptr(Impulse(n)), n, isa, T).samples
                    = Ptr(ImpulseResponse(arg, n))

\* the numerator the cookbook table gives for kind k
TableNumerator(k, cos_w0, alpha, Q, constantSkirt) ==
    CASE k = "LowPassFilter" ->
            <<RDiv(RSub(One, cos_w0), Two), RSub(One, cos_w0),
              RDiv(RSub(One, cos_w0), Two)>>
      [] k = "HighPassFilter" ->
            <<RDiv(RAdd(One, cos_w0), Two), RNeg(RAdd(One, cos_w0)),
              RDiv(RAdd(One, cos_w0), Two)>>
      [] k = "BandPassFilter" /\ ~constantSkirt ->
            <<alpha, Zero, RNeg(alpha)>>
      [] k = "BandPassFilter" /\ constantSkirt ->
            <<RMul(Q, alpha), Zero, RNeg(RMul(Q, alpha))>>
      [] k = "NotchFilter" ->
            <<One, RMul(R(-2), cos_w0), One>>
      [] k = "AllPassFilter" ->
            <<RSub(One, alpha), RMul(R(-2), cos_w0), RAdd(One, alpha)>>

\* the denominator the five share
TableDenominator(cos_w0, alpha) ==
    <<RAdd(One, alpha), RMul(R(-2), cos_w0), RSub(One, alpha)>>

\* the kinds without a gain
PlainKinds == Kinds \ GainKinds

\* the six values of a coefficient set in the table's order
AsRow(c) == <<c.b0, c.b1, c.b2, c.a0, c.a1, c.a2>>

\* C21: for LowPass, HighPass, BandPass, Notch and AllPass,
\* calculate_coefficients returns the denominator (1+alpha, -2 cos_w0,
\* 1-alpha) and the numerator of the table, as a function of cos_w0, alpha
\* and Q, with the Q-scaled band-pass numerator when the constant-skirt flag
\* is set.
C21_PlainFormulasMatchTable ==
    kind \in PlainKinds
        => AsRow(calculate_coefficients(This))
              = TableNumerator(kind, CosW0(This), Alpha(This), m_qFactor,
                               m_constantSkirtGain)
                \o TableDenominator(CosW0(This), Alpha(This))

\* a band-pass filter at a quarter of the sample rate with Q = 1/2 switched
\* to constant skirt gain: alpha = 1 and the numerator is (1/2, 0, -1/2)
C21_Witness ==
    /\ kind = "BandPassFilter"
    /\ op = "set_constant_skirt_gain"
    /\ ret
    /\ m_constantSkirtGain
    /\ m_qFactor = Rat(1, 2)
    /\ AsRow(accepted) = <<Rat(1, 2), Zero, Rat(-1, 2), Two, Zero, Zero>>

\* the six values the cookbook table gives for the kinds with a gain;
\* rootA is sqrt(A)
TableRow(k, cos_w0, alpha, A, rootA) ==
    LET up == RAdd(RAdd(A, One), RMul(RSub(A, One), cos_w0))
        down == RSub(RAdd(A, One), RMul(RSub(A, One), cos_w0))
        slope == RMul(RMul(Two, rootA), alpha)
    IN  CASE k = "PeakingEQFilter" ->
                <<RAdd(One, RMul(alpha, A)), RMul(R(-2), cos_w0),
                  RSub(One, RMul(alpha, A)),
                  RAdd(One, RDiv(alpha, A)), RMul(R(-2), cos_w0),
                  RSub(One, RDiv(alpha, A))>>
          [] k = "LowShelfFilter" ->
                <<RMul(A, RAdd(down, slope)),
                  RMul(RMul(Two, A),
                       RSub(RSub(A, One), RMul(RAdd(A, One), cos_w0))),
                  RMul(A, RSub(down, slope)),
                  RAdd(up, slope),
                  RMul(R(-2), RAdd(RSub(A, One), RMul(RAdd(A, One), cos_w0))),
                  RSub(up, slope)>>
          [] k = "HighShelfFilter" ->
                <<RMul(A, RAdd(up, slope)),
                  RMul(RMul(R(-2), A),
                       RAdd(RSub(A, One), RMul(RAdd(A, One), cos_w0))),
                  RMul(A, RSub(up, slope)),
                  RAdd(down, slope),
                  RMul(Two, RSub(RSub(A, One), RMul(RAdd(A, One), cos_w0))),
                  RSub(down, slope)>>

\* C22: for PeakingEQ, LowShelf and HighShelf, calculate_coefficients
\* returns exactly the six values of the table, signs included, as a
\* function of cos_w0, alpha, A and sqrt(A), with A = 10^(gain/40).
C22_GainFormulasMatchTable ==
    kind \in GainKinds
        => AsRow(calculate_coefficients(This))
              = TableRow(kind, CosW0(This), Alpha(This),
                         Pow10(RDiv(m_gain, R(40))),
                         Sqrt(Pow10(RDiv(m_gain, R(40)))))

\* a low-shelf filter at a quarter of the sample rate with Q = 1/2 given a
\* gain of 80 dB: cos_w0 = 0, alpha = 1, A = 100 and sqrt(A) = 10
C22_Witness ==
    /\ kind = "LowShelfFilter"
    /\ op = "set_gain"
    /\ ret
    /\ arg = <<R(80)>>
    /\ AsRow(accepted)
          = <<R(12100), R(19800), R(8100), R(121), R(-198), R(81)>>

\* C23 as stated: whenever set_cutoff, set_sample_rate, set_q_factor,
\* set_bandwidth, set_gain or set_constant_skirt_gain returns true, the
\* core's state x1, x2, y1, y2 and its sample counter are all zero
\* immediately after the call, whatever was processed before.
C23_SetterZeroesState ==
    (op \in RecomputingSetters /\ ret)
        => m_filter.m_state = ZeroState /\ m_filter.m_iter = 0

\* C24 as stated: process(buffer, count) of a filter type, called with bypass
\* off on a factory-created filter, returns false when the buffer pointer is
\* null or count is 0, and processes nothing in that case.
C24_NullOrEmptyBlockRefused ==
    (/\ op = "process_block"
     /\ m_filter.has_value
     /\ ~m_bypass
     /\ (arg[1].null \/ arg[2] = 0))
        => ~ret /\ fed = prior

\* the samples the last process call was given, one for process(sample)
CallInputs(o, a) ==
    IF o = "process" THEN <<a[1]>>
    ELSE SubSeq(BlockBuffer(a), 1, BlockCount(a))

\* the state holding the last two of the inputs xs and of the outputs ys
LastTwo(xs, ys) ==
    State(xs[Len(xs)], xs[Len(xs) - 1], ys[Len(ys)], ys[Len(ys) - 1])

\* C25 as stated: after any mix of process(sample) and successful
\* process(buffer, count) calls that handled at least two samples since the
\* last reset or coefficient change, x1 and x2 are the last and the
\* second-to-last input and y1 and y2 the last and the second-to-last
\* output.
C25_StateHoldsLastTwoSamples ==
    [][(op' \in {"process", "process_block"} /\ ret' /\ fed' >= 2)
        => LET s == m_filter.m_state
               xs == CallInputs(op', arg')
           IN  m_filter'.m_state
                  = LastTwo(<<s.x2, s.x1>> \o xs,
                            <<s.y2, s.y1>> \o SubSeq(samples', 1, Len(xs)))]_vars

\* C26 as stated: the sample counter equals the number of samples processed
\* since creation, the last reset or the last successful set_coefficients:
\* process(sample) adds 1, a successful process(buffer, count) adds count,
\* nothing else increases it.
C26_CounterCountsSamples ==
    m_filter.has_value => m_filter.m_iter = fed

\* process(buffer, k) on core f followed by process(buffer + k, N - k),
\* where first is the answer of the first call
SplitSecond(first, buffer, k, N, i, t) ==
    process_block(first.filter, Ptr(SubSeq(buffer, k + 1, N)), N - k, i, t)

\* the buffer and the core two block calls first and second leave
SplitResult(first, second) ==
    [samples |-> first.samples.mem \o second.samples.mem,
     state |-> second.filter.m_state]

Split(f, buffer, k, N, i, t, first) ==
    SplitResult(first, SplitSecond(first, buffer, k, N, i, t))

SplitAt(f, buffer, k, N, i, t) ==
    Split(f, buffer, k, N, i, t,
          process_block(f, Ptr(SubSeq(buffer, 1, k)), k, i, t))

\* C27 as stated: block size does not matter: for every split 0 < k < N,
\* process(buffer, k) followed by process(buffer + k, N - k) leaves the same
\* buffer and the same final core state as one process(buffer, N).
C27_BlockSizeDoesNotMatter ==
    [][(op' = "process_block" /\ ret')
        => \A k \in 1..(BlockCount(arg') - 1) :
              SplitAt(m_filter, BlockBuffer(arg'), k, BlockCount(arg'), isa, T)
                 = [samples |-> SubSeq(samples', 1, BlockCount(arg')),
                    state |-> m_filter'.m_state]]_vars

\* the natural logarithm of 2, 0.693, to two digits
LnOf2 == Rat(69, 100)

\* sinh(h ln 2), which is (2^h - 2^-h) / 2 exactly and h ln 2 for h close
\* to 0
SinhOfLn2Times(h) ==
    CASE h = Two               -> Rat(15, 8)
      [] h = Rat(1, 200000)    -> RMul(h, LnOf2)

\* 1 / (2 sinh(bandwidth ln(2) / 2)) in T's arithmetic
NaturalLogQ(bandwidth) ==
    Overflow(RDiv(One, RMul(Two, SinhOfLn2Times(RDiv(bandwidth, Two)))))

\* 2 asinh(1 / (2 Q)) / ln(2) in T's arithmetic
NaturalLogBandwidth(Q) ==
    RDiv(RMul(Two, Asinh(RDiv(One, Overflow(RMul(Two, Q))))), LnOf2)

\* C28 as stated: set_bandwidth(bw) stores Q = 1 / (2 sinh(bw ln(2) / 2))
\* with the natural logarithm of 2, and get_bandwidth returns
\* 2 asinh(1 / (2 Q)) / ln(2).
C28_BandwidthUsesNaturalLog ==
    (op = "set_bandwidth" /\ ret)
        => /\ m_qFactor = NaturalLogQ(arg[1])
           /\ get_bandwidth(This) = NaturalLogBandwidth(m_qFactor)

\* the answer of the setter called name to value on object o
SetterResult(name, o, value) ==
    CASE name = "set_cutoff"              -> set_cutoff(o, value)
      [] name = "set_sample_rate"         -> set_sample_rate(o, value)
      [] name = "set_q_factor"            -> set_q_factor(o, value)
      [] name = "set_bandwidth"           -> set_bandwidth(o, value)
      [] name = "set_gain"                -> set_gain(o, value)
      [] name = "set_constant_skirt_gain" -> set_constant_skirt_gain(o, value)

\* object o with its bypass flag set to bypass
WithBypass(o, bypass) == [o EXCEPT !.m_bypass = bypass]

\* a setter that answered r to a filter never bypassed leaves object o and
\* returns returned on the same filter with its bypass flag at bypass
SameButBypass(r, o, returned, bypass) ==
    /\ o = WithBypass(r.object, bypass)
    /\ returned = r.ret

\* C29: bypass gates only process: under bypass every setter validates,
\* stores, recomputes and resets the core's state exactly as it does without
\* bypass and returns the same value, and no setter changes the bypass flag.
C29_BypassGatesOnlyProcess ==
    [][op' \in RecomputingSetters
        => /\ m_bypass' = m_bypass
           /\ SameButBypass(SetterResult(op', WithBypass(This, FALSE),
                                        arg'[1]),
                           This', ret', m_bypass)]_vars

\* a setter that reset the core of a bypassed filter holding a processed
\* sample
C29_Witness ==
    /\ op = "set_q_factor"
    /\ m_bypass
    /\ ret
    /\ prior > 0
    /\ fed = 0
    /\ m_filter.m_state = ZeroState
    /\ m_filter.m_iter = 0

\* the setter called name sets a parameter the formula of kind k ignores
IgnoredBy(k, name) ==
    \/ name = "set_gain" /\ k \in PlainKinds
    \/ name = "set_constant_skirt_gain" /\ k \notin {"none", "BandPassFilter"}

\* C30 as stated: on a type whose formula ignores the parameter (set_gain on
\* LowPass, HighPass, BandPass, Notch and AllPass, set_constant_skirt_gain
\* on every type but BandPass) the setter accepts any value, returns true
\* and leaves the core's normalized coefficients unchanged, yet still zeroes
\* the core's state and sample counter.
C30_IgnoredParameterStillResets ==
    [][IgnoredBy(kind, op')
        => /\ ret'
           /\ m_filter'.m_coefficients = m_filter.m_coefficients
           /\ m_filter'.m_state = ZeroState
           /\ m_filter'.m_iter = 0]_vars

=============================================================================
